---- MODULE Spec2Model ----
(***************************************************************************)
(* A model of gt4py.next.embedded: array-backed fields                     *)
(* (nd_array_field.py) and function fields (function_field.py) over named  *)
(* domains.  Buffers live in a heap (bufs); an array-backed field holds a  *)
(* view of one buffer, so that slicing aliases the buffer as NumPy's basic *)
(* indexing does.  The operations of the two classes are the actions; each *)
(* records what it was given and what it returned in `last`.  The registry *)
(* of built-in function implementations is the class dictionary the        *)
(* array-backed field classes share (registry).                            *)
(***************************************************************************)
EXTENDS Integers, Sequences, FiniteSets, TLC

VARIABLES bufs, fields, last, calls, registry

vars == <<bufs, fields, last, calls, registry>>

(***************************************************************************)
(* Bounds of the model.                                                    *)
(***************************************************************************)
\* the number of fields the store holds
MaxFields == 2
\* the longest buffer axis handed to from_array
MaxLen == 3
\* the largest start of a bounded domain range
MaxStart == 1
\* the number of calls of one run of the client
MaxCalls == 3

(***************************************************************************)
(* Integers helpers.                                                       *)
(***************************************************************************)
Max(a, b) == IF a >= b THEN a ELSE b

Min(a, b) == IF a <= b THEN a ELSE b

Abs(a) == IF a < 0 THEN 0 - a ELSE a

(***************************************************************************)
(* common.Infinity, common.UnitRange, common.Domain.                       *)
(***************************************************************************)
\* Infinity.positive(): an integer above every coordinate and length
InfPos == 1000

InfNeg == 0 - InfPos

UnitRange(a, b) == [start |-> a, stop |-> b]

UnitRange_infinity == UnitRange(InfNeg, InfPos)

\* len(r): unbounded on either end has the infinite length
RangeLen(r) ==
    IF InfPos \in {Abs(r.start), Abs(r.stop)} THEN InfPos
    ELSE Max(0, r.stop - r.start)

\* r1 & r2: max of the starts, min of the stops, never stop < start
RangeAnd(r1, r2) ==
    LET s == Max(r1.start, r2.start)
    IN  UnitRange(s, Max(Min(r1.stop, r2.stop), s))

\* the dimensions, and the order promote_dims gives them
Dims == {"I", "J"}

DimPos(d) == IF d = "I" THEN 1 ELSE 2

NamedRange(d, r) == [dim |-> d, rng |-> r]

DomainDims(dom) == [k \in 1..Len(dom) |-> dom[k].dim]

DomainRanges(dom) == [k \in 1..Len(dom) |-> dom[k].rng]

EMPTY_DOMAIN == <<>>

\* _find_index_of_dim: the first position naming dim, 0 for None
find_index_of_dim(dim, domain_slice) ==
    IF \E p \in 1..Len(domain_slice) : domain_slice[p].dim = dim
    THEN CHOOSE p \in 1..Len(domain_slice) :
            /\ domain_slice[p].dim = dim
            /\ \A q \in 1..(p - 1) : domain_slice[q].dim # dim
    ELSE 0

\* promote_dims: the union of the two dimension tuples, in dimension order
promote_dims(dims1, dims2) ==
    LET U == {dims1[k] : k \in 1..Len(dims1)} \cup {dims2[k] : k \in 1..Len(dims2)}
        n == Cardinality(U)
    IN  [k \in 1..n |-> CHOOSE d \in U : Cardinality({e \in U : DimPos(e) < DimPos(d)}) = k - 1]

\* the range of dim in dom, the unbounded range where dom lacks dim
BroadcastRange(dom, dim) ==
    LET p == find_index_of_dim(dim, dom)
    IN  IF p = 0 THEN UnitRange_infinity ELSE dom[p].rng

\* Domain.__and__: both domains broadcast to the promoted dimensions, then
\* the ranges intersected dimension by dimension
DomainAnd(d1, d2) ==
    LET ds == promote_dims(DomainDims(d1), DomainDims(d2))
    IN  [k \in 1..Len(ds) |->
            NamedRange(ds[k], RangeAnd(BroadcastRange(d1, ds[k]), BroadcastRange(d2, ds[k])))]

(***************************************************************************)
(* Index specifications: a sequence of named elements, each a named range  *)
(* (kind "rng") or a named integer index (kind "idx").                     *)
(***************************************************************************)
NamedRng(d, r) == [dim |-> d, kind |-> "rng", rng |-> r, idx |-> 0]

NamedIdx(d, i) == [dim |-> d, kind |-> "idx", rng |-> UnitRange(0, 0), idx |-> i]

\* e, evaluated once, handed to F
Bind(e, F(_)) == CHOOSE y \in {F(x) : x \in {e}} : TRUE

Ok(v) == [ok |-> TRUE, val |-> v, err |-> ""]

Err(e) == [ok |-> FALSE, val |-> <<>>, err |-> e]

\* sub_domain on a named index: a named integer inside the axis range drops
\* the axis, a named range narrows it to the intersection, an axis the index
\* does not name is kept
RECURSIVE absolute_sub_domain(_, _, _)
absolute_sub_domain(domain, index, i) ==
    IF i > Len(domain) THEN Ok(<<>>)
    ELSE LET pos  == find_index_of_dim(domain[i].dim, index)
             rng  == domain[i].rng
             rest == absolute_sub_domain(domain, index, i + 1)
         IN  IF pos = 0
             THEN IF rest.ok THEN Ok(<<domain[i]>> \o rest.val) ELSE rest
             ELSE IF index[pos].kind = "rng"
             THEN IF rest.ok
                  THEN Ok(<<NamedRange(domain[i].dim, RangeAnd(rng, index[pos].rng))>> \o rest.val)
                  ELSE rest
             ELSE IF index[pos].idx < rng.start \/ index[pos].idx >= rng.stop
                  THEN Err("IndexOutOfBounds")
                  ELSE rest

sub_domain(domain, index) ==
    IF Len(domain) = 0 /\ Len(index) > 0 THEN Err("EmptyDomainIndexError")
    ELSE absolute_sub_domain(domain, index, 1)

(***************************************************************************)
(* NumPy arrays.  An array is a shape and a function from the 0-based      *)
(* index tuples of the shape to elements; a view names a buffer of the     *)
(* heap and, for each of its own index tuples, the buffer's index tuple.   *)
(***************************************************************************)
IdxSet(shape) ==
    {s \in [1..Len(shape) -> 0..(MaxLen + 1)] : \A k \in 1..Len(shape) : s[k] < shape[k]}

\* the element type is one of core_defs.SCALAR_TYPES
IsScalarDType(dtype) == dtype \in {"int", "bool"}

IdentityView(b, shape) == [buf |-> b, shape |-> shape, map |-> [i \in IdxSet(shape) |-> i]]

\* the array a view shows
ViewArr(heap, v) ==
    [shape |-> v.shape, dtype |-> heap[v.buf].dtype,
     data |-> [i \in IdxSet(v.shape) |-> heap[v.buf].data[v.map[i]]]]

\* selectors of a buffer slice
SliceAll == [k |-> "all", a |-> 0, b |-> 0]

Slice(a, b) == [k |-> "slice", a |-> a, b |-> b]

IntIndex(i) == [k |-> "int", a |-> i, b |-> 0]

NewAxis == [k |-> "new", a |-> 0, b |-> 0]

\* a slice bound on an axis of length n: negative counts from the end, then clamped
SliceBound(a, n) == IF a < 0 THEN Max(a + n, 0) ELSE Min(a, n)

\* one entry per selector (and per trailing axis): the source axis, the offset
\* into it, the length of the result axis, whether the result keeps an axis
RECURSIVE IndexPlan(_, _, _)
IndexPlan(shape, sl, ax) ==
    IF sl = <<>>
    THEN [k \in 1..(Len(shape) - ax + 1) |->
            [src |-> ax + k - 1, off |-> 0, len |-> shape[ax + k - 1], keep |-> TRUE, ok |-> TRUE]]
    ELSE LET h == Head(sl) IN
         IF h.k = "new"
         THEN <<[src |-> 0, off |-> 0, len |-> 1, keep |-> TRUE, ok |-> TRUE]>>
                  \o IndexPlan(shape, Tail(sl), ax)
         ELSE IF ax > Len(shape)
         THEN <<[src |-> 0, off |-> 0, len |-> 0, keep |-> FALSE, ok |-> FALSE]>>
         ELSE LET n == shape[ax] IN
              IF h.k = "all"
              THEN <<[src |-> ax, off |-> 0, len |-> n, keep |-> TRUE, ok |-> TRUE]>>
                       \o IndexPlan(shape, Tail(sl), ax + 1)
              ELSE IF h.k = "slice"
              THEN LET lo == SliceBound(h.a, n)
                       hi == SliceBound(h.b, n)
                   IN  <<[src |-> ax, off |-> lo, len |-> Max(0, hi - lo), keep |-> TRUE, ok |-> TRUE]>>
                           \o IndexPlan(shape, Tail(sl), ax + 1)
              ELSE LET i == IF h.a < 0 THEN h.a + n ELSE h.a
                   IN  <<[src |-> ax, off |-> i, len |-> 1, keep |-> FALSE,
                          ok |-> (0 <= i /\ i < n)]>>
                           \o IndexPlan(shape, Tail(sl), ax + 1)

\* view[sl]: NumPy basic indexing of a view by a tuple of selectors.  The
\* result is a view of the same buffer; IndexError for an integer outside its
\* axis or for more selectors than axes.
PlanView(v, plan) ==
    LET kept   == SelectSeq(plan, LAMBDA e : e.keep)
        nshape == [k \in 1..Len(kept) |-> kept[k].len]
        At(a)  == CHOOSE p \in 1..Len(plan) : plan[p].src = a
        Rank(p) == Cardinality({q \in 1..p : plan[q].keep})
        Src(r) == [a \in 1..Len(v.shape) |->
                     plan[At(a)].off + (IF plan[At(a)].keep THEN r[Rank(At(a))] ELSE 0)]
    IN  [buf |-> v.buf, shape |-> nshape,
         map |-> [r \in IdxSet(nshape) |-> v.map[Src(r)]]]

NdIndex(v, sl) ==
    Bind(IndexPlan(v.shape, sl, 1), LAMBDA plan :
        IF \E p \in 1..Len(plan) : ~plan[p].ok THEN Err("IndexError")
        ELSE Ok(PlanView(v, plan)))

(***************************************************************************)
(* Elementwise operators of the array namespace, with NumPy broadcasting:  *)
(* shapes are aligned at their last axes, an axis of length 1 stretches.   *)
(***************************************************************************)
ApplyOp(op, x, y) ==
    IF op = "add" THEN x + y
    ELSE IF op = "sub" THEN x - y
    ELSE x * y

ApplyUnary(op, x) == IF op = "neg" THEN 0 - x ELSE Abs(x)

\* the length of axis k (counted in the result's rank R) of an operand
PadLen(shape, R, k) ==
    IF k <= R - Len(shape) THEN 1 ELSE shape[k - (R - Len(shape))]

\* the operand's index tuple for the result's index tuple r
PadIdx(shape, R, r) ==
    [k \in 1..Len(shape) |-> IF shape[k] = 1 THEN 0 ELSE r[k + (R - Len(shape))]]

Elementwise(op, x, y) ==
    LET R  == Max(Len(x.shape), Len(y.shape))
        sh == [k \in 1..R |->
                 IF PadLen(x.shape, R, k) = 1 THEN PadLen(y.shape, R, k)
                 ELSE PadLen(x.shape, R, k)]
    IN  IF \E k \in 1..R : /\ PadLen(x.shape, R, k) # PadLen(y.shape, R, k)
                           /\ PadLen(x.shape, R, k) # 1
                           /\ PadLen(y.shape, R, k) # 1
        THEN Err("ValueError")
        ELSE Ok([shape |-> sh, dtype |-> x.dtype,
                 data |-> [r \in IdxSet(sh) |->
                             ApplyOp(op, x.data[PadIdx(x.shape, R, r)],
                                         y.data[PadIdx(y.shape, R, r)])]])

(***************************************************************************)
(* nd_array_field.py: _BaseNdArrayField and its helpers.  An array-backed  *)
(* field is [kind |-> "nd", domain, arr], arr a view of a heap buffer.     *)
(***************************************************************************)
NdField(domain, v) == [kind |-> "nd", domain |-> domain, arr |-> v]

Scalar(x) == [kind |-> "scalar", v |-> x]

\* the heap with a new buffer, and the view of the whole of that buffer
Alloc(heap, a) == Append(heap, a)

NewView(heap, a) == IdentityView(Len(heap) + 1, a.shape)

\* from_array without the assert on the rank: the ranges and the axes are
\* compared pairwise as far as both go
from_array_zip_only(heap, v, domain) ==
    IF ~IsScalarDType(heap[v.buf].dtype) THEN Err("AssertionError")
    ELSE IF \E k \in 1..Min(Len(domain), Len(v.shape)) :
                ~(\/ RangeLen(domain[k].rng) = v.shape[k]
                  \/ (v.shape[k] = 1 /\ domain[k].rng = UnitRange_infinity))
    THEN Err("AssertionError")
    ELSE Ok(NdField(domain, v))

\* from_array: the asserts of the constructor, then cls(domain, array)
from_array(heap, v, domain) ==
    IF ~IsScalarDType(heap[v.buf].dtype) THEN Err("AssertionError")
    ELSE IF Len(domain) # Len(v.shape) THEN Err("AssertionError")
    ELSE IF \E k \in 1..Len(domain) :
                ~(\/ RangeLen(domain[k].rng) = v.shape[k]
                  \/ (v.shape[k] = 1 /\ domain[k].rng = UnitRange_infinity))
    THEN Err("AssertionError")
    ELSE Ok(NdField(domain, v))

\* _compute_slice with the selector left at the domain's coordinates, not
\* offset by the start of the axis
compute_slice_absolute(elem, domain, pos) ==
    IF elem.kind = "rng"
    THEN IF domain[pos].rng = UnitRange_infinity
         THEN Ok(SliceAll)
         ELSE Ok(Slice(elem.rng.start, elem.rng.stop))
    ELSE IF elem.kind = "idx"
    THEN Ok(IntIndex(elem.idx))
    ELSE Err("ValueError")

\* _compute_slice: the buffer selector of one named range or named index
compute_slice(elem, domain, pos) ==
    IF elem.kind = "rng"
    THEN IF domain[pos].rng = UnitRange_infinity
         THEN Ok(SliceAll)
         ELSE Ok(Slice(elem.rng.start - domain[pos].rng.start,
                       elem.rng.stop - domain[pos].rng.start))
    ELSE IF elem.kind = "idx"
    THEN Ok(IntIndex(elem.idx - domain[pos].rng.start))
    ELSE Err("ValueError")

\* _get_slices_from_domain_slice taking the elements of the domain slice by
\* position, not by the dimension they name
RECURSIVE get_slices_by_position(_, _, _)
get_slices_by_position(domain, domain_slice, pos_old) ==
    IF pos_old > Len(domain) THEN Ok(<<>>)
    ELSE LET one == IF pos_old <= Len(domain_slice)
                    THEN compute_slice(domain_slice[pos_old], domain, pos_old)
                    ELSE Ok(SliceAll)
         IN  IF ~one.ok THEN one
             ELSE Bind(get_slices_by_position(domain, domain_slice, pos_old + 1),
                       LAMBDA rest : IF ~rest.ok THEN rest ELSE Ok(<<one.val>> \o rest.val))

\* _get_slices_from_domain_slice: one selector per axis of domain
RECURSIVE get_slices_from_domain_slice(_, _, _)
get_slices_from_domain_slice(domain, domain_slice, pos_old) ==
    IF pos_old > Len(domain) THEN Ok(<<>>)
    ELSE LET pos  == find_index_of_dim(domain[pos_old].dim, domain_slice)
             one  == IF pos # 0 THEN compute_slice(domain_slice[pos], domain, pos_old)
                     ELSE Ok(SliceAll)
         IN  IF ~one.ok THEN one
             ELSE Bind(get_slices_from_domain_slice(domain, domain_slice, pos_old + 1),
                       LAMBDA rest : IF ~rest.ok THEN rest ELSE Ok(<<one.val>> \o rest.val))

\* a Domain handed over as a domain slice: its named ranges
DomainAsSlice(dom) == [k \in 1..Len(dom) |-> NamedRng(dom[k].dim, dom[k].rng)]

\* _BaseNdArrayField._slice: the new domain and the buffer slice of an index
slice_(f, index) ==
    Bind(sub_domain(f.domain, index), LAMBDA nd :
        IF ~nd.ok THEN nd
        ELSE Bind(get_slices_from_domain_slice(f.domain, index, 1), LAMBDA sl :
                IF ~sl.ok THEN sl ELSE Ok([domain |-> nd.val, slice |-> sl.val])))

\* _BaseNdArrayField.restrict
restrict(heap, f, index) ==
    Bind(slice_(f, index), LAMBDA s :
        IF ~s.ok THEN s
        ELSE Bind(NdIndex(f.arr, s.val.slice), LAMBDA nb :
                IF ~nb.ok THEN nb
                ELSE IF Len(s.val.domain) = 0
                THEN IF nb.val.shape = <<>>
                     THEN Ok(Scalar(heap[nb.val.buf].data[nb.val.map[<<>>]]))
                     ELSE Err("AssertionError")
                ELSE from_array(heap, nb.val, s.val.domain)))

\* _compute_new_domain_info: per new dimension, the field's own range and a
\* select-everything, or the unbounded range and a new axis
compute_new_domain_info(f, new_dimensions) ==
    [domain |-> [k \in 1..Len(new_dimensions) |->
                    NamedRange(new_dimensions[k], BroadcastRange(f.domain, new_dimensions[k]))],
     slice  |-> [k \in 1..Len(new_dimensions) |->
                    IF find_index_of_dim(new_dimensions[k], f.domain) # 0
                    THEN SliceAll ELSE NewAxis]]

\* _broadcast handing the buffer on as it is, without field.ndarray[domain_slice]
broadcast_unsliced(heap, f, new_dimensions) ==
    Bind(compute_new_domain_info(f, new_dimensions), LAMBDA info :
        from_array(heap, f.arr, info.domain))

\* _broadcast
broadcast(heap, f, new_dimensions) ==
    Bind(compute_new_domain_info(f, new_dimensions), LAMBDA info :
        Bind(NdIndex(f.arr, info.slice), LAMBDA nb :
            IF ~nb.ok THEN nb ELSE from_array(heap, nb.val, info.domain)))

\* a result holding new data: the heap with the data's buffer, and the field
\* from_array makes of it
FromNewData(heap, a, domain) ==
    Bind(from_array(Alloc(heap, a), NewView(heap, a), domain), LAMBDA r :
        IF ~r.ok THEN r ELSE Ok([heap |-> Alloc(heap, a), field |-> r.val]))

\* op on the two operands sliced down to the intersection
SlicedOp(heap, op, ab, bb, di) ==
    Bind(get_slices_from_domain_slice(ab.domain, DomainAsSlice(di), 1), LAMBDA asl :
    Bind(get_slices_from_domain_slice(bb.domain, DomainAsSlice(di), 1), LAMBDA bsl :
    Bind(NdIndex(ab.arr, asl.val), LAMBDA av :
    Bind(NdIndex(bb.arr, bsl.val), LAMBDA bv :
        IF ~av.ok THEN av
        ELSE IF ~bv.ok THEN bv
        ELSE Bind(ViewArr(heap, av.val), LAMBDA x :
             Bind(ViewArr(heap, bv.val), LAMBDA y :
             Bind(Elementwise(op, x, y), LAMBDA nd :
                 IF ~nd.ok THEN nd ELSE FromNewData(heap, nd.val, di))))))))

\* _builtin_binary_op of two array-backed fields
builtin_binary_op(heap, op, a, b) ==
    IF a.domain # b.domain
    THEN Bind(DomainAnd(a.domain, b.domain), LAMBDA di :
         Bind(broadcast(heap, a, DomainDims(di)), LAMBDA ab :
         Bind(broadcast(heap, b, DomainDims(di)), LAMBDA bb :
             IF ~ab.ok THEN ab
             ELSE IF ~bb.ok THEN bb
             ELSE SlicedOp(heap, op, ab.val, bb.val, di))))
    ELSE Bind(ViewArr(heap, a.arr), LAMBDA x :
         Bind(ViewArr(heap, b.arr), LAMBDA y :
         Bind(Elementwise(op, x, y), LAMBDA nd :
             IF ~nd.ok THEN nd ELSE FromNewData(heap, nd.val, a.domain))))

\* _builtin_unary_op
builtin_unary_op(heap, op, a) ==
    Bind(ViewArr(heap, a.arr), LAMBDA x :
        FromNewData(heap,
                    [shape |-> x.shape, dtype |-> x.dtype,
                     data |-> [i \in IdxSet(x.shape) |-> ApplyUnary(op, x.data[i])]],
                    a.domain))

\* _BaseNdArrayField.remap(connectivity): one argument besides self
nd_remap(f, nargs) == IF nargs # 1 THEN Err("TypeError") ELSE Err("NotImplementedError")

\* _BaseNdArrayField.__call__ = None: calling the field calls None
nd_call(f, nargs) == Err("TypeError")

\* whether an array of shape vs can be assigned to a selection of shape ts
CanAssign(vs, ts) ==
    \A k \in 1..Len(vs) :
        LET t == Len(ts) - (Len(vs) - k)
        IN  IF t >= 1 THEN vs[k] \in {1, ts[t]} ELSE vs[k] = 1

\* an assignment that writes the buffer of the target, not the selection
NdAssign_whole_buffer(heap, tv, val) ==
    [heap EXCEPT ![tv.buf].data =
        [i \in DOMAIN heap[tv.buf].data |-> val.data[CHOOSE r \in DOMAIN val.data : TRUE]]]

\* target[...] = value of NumPy: the buffer with the selected elements replaced
\* by the value, stretched to the selection
NdAssign(heap, tv, val) ==
    LET src(r) == [k \in 1..Len(val.shape) |->
                      IF val.shape[k] = 1 THEN 0 ELSE r[Len(tv.shape) - (Len(val.shape) - k)]]
        hit(i) == {r \in IdxSet(tv.shape) : tv.map[r] = i}
    IN  [heap EXCEPT ![tv.buf].data =
            [i \in DOMAIN heap[tv.buf].data |->
                IF hit(i) = {} THEN heap[tv.buf].data[i]
                ELSE val.data[src(CHOOSE r \in hit(i) : TRUE)]]]

ScalarArr(x) == [shape |-> <<>>, dtype |-> "int", data |-> [i \in {<<>>} |-> x]]

\* _builtin_binary_op with any second operand: a field has
\* __gt_builtin_func__, anything else has to be a scalar
builtin_binary_op_any(heap, op, a, b) ==
    IF b.kind = "nd" THEN builtin_binary_op(heap, op, a, b)
    ELSE IF b.kind = "scalar"
    THEN Bind(ViewArr(heap, a.arr), LAMBDA x :
         Bind(Elementwise(op, x, ScalarArr(b.v)), LAMBDA nd :
             IF ~nd.ok THEN nd ELSE FromNewData(heap, nd.val, a.domain)))
    ELSE Err("AssertionError")

\* _np_cp_setitem without the comparison of the domains: what NumPy can
\* assign is assigned
np_cp_setitem_unchecked(heap, f, index, value) ==
    Bind(slice_(f, index), LAMBDA s :
        IF ~s.ok THEN s
        ELSE Bind(IF value.kind = "nd" THEN ViewArr(heap, value.arr) ELSE ScalarArr(value.v),
                  LAMBDA val :
             Bind(NdIndex(f.arr, s.val.slice), LAMBDA tv :
                 IF ~tv.ok THEN tv
                 ELSE IF ~CanAssign(val.shape, tv.val.shape) THEN Err("ValueError")
                 ELSE Ok([heap |-> NdAssign(heap, tv.val, val), target |-> tv.val]))))

\* _np_cp_setitem: value is a field (kind "nd") or a scalar
np_cp_setitem(heap, f, index, value) ==
    Bind(slice_(f, index), LAMBDA s :
        IF ~s.ok THEN s
        ELSE IF value.kind = "nd" /\ value.domain # s.val.domain THEN Err("ValueError")
        ELSE Bind(IF value.kind = "nd" THEN ViewArr(heap, value.arr) ELSE ScalarArr(value.v),
                  LAMBDA val :
             Bind(NdIndex(f.arr, s.val.slice), LAMBDA tv :
                 IF ~tv.ok THEN tv
                 ELSE IF ~CanAssign(val.shape, tv.val.shape) THEN Err("ValueError")
                 ELSE Ok([heap |-> NdAssign(heap, tv.val, val), target |-> tv.val]))))

(***************************************************************************)
(* nd_array_field.py: the registry of built-in function implementations,   *)
(* the class dictionary _builtin_func_map of _BaseNdArrayField, which its   *)
(* subclasses share.  Built-in functions and implementations are named by  *)
(* strings; "None" is no implementation given.                             *)
(***************************************************************************)
\* _BaseNdArrayField.register_builtin_func without the assert: the
\* implementation given replaces the one registered
register_builtin_func_overwrite(map, op, op_func) ==
    IF op_func = "None" THEN Ok([map |-> map, ret |-> [kind |-> "partial", op |-> op, f |-> "None"]])
    ELSE Ok([map |-> [o \in DOMAIN map \cup {op} |-> IF o = op THEN op_func ELSE map[o]],
             ret |-> [kind |-> "impl", op |-> op, f |-> op_func]])

\* _BaseNdArrayField.register_builtin_func on the class's _builtin_func_map;
\* op_func "None" is the decorator mode, which returns the partial application
register_builtin_func(map, op, op_func) ==
    IF op \in DOMAIN map THEN Err("AssertionError")
    ELSE IF op_func = "None"
    THEN Ok([map |-> map, ret |-> [kind |-> "partial", op |-> op, f |-> "None"]])
    ELSE Ok([map |-> [o \in DOMAIN map \cup {op} |-> IF o = op THEN op_func ELSE map[o]],
             ret |-> [kind |-> "impl", op |-> op, f |-> op_func]])

\* _BaseNdArrayField.__gt_builtin_func__
gt_builtin_func(map, func) == IF func \in DOMAIN map THEN map[func] ELSE "NotImplemented"

\* the registrations made when the module is loaded
RECURSIVE RegisterAll(_, _)
RegisterAll(map, regs) ==
    IF regs = <<>> THEN map
    ELSE RegisterAll(register_builtin_func(map, regs[1][1], regs[1][2]).val.map, Tail(regs))

ModuleRegistry ==
    RegisterAll(<<>>, << <<"abs", "__abs__">>, <<"power", "__pow__">>,
                        <<"sin", "unary_sin">>, <<"floor", "unary_floor">>,
                        <<"minimum", "binary_minimum">>, <<"maximum", "binary_maximum">>,
                        <<"fmod", "binary_fmod">>, <<"broadcast", "_builtins_broadcast">> >>)

(***************************************************************************)
(* function_field.py: FunctionField.  A function field is                  *)
(* [kind |-> "fn", domain, func, constant]; func is a generator:           *)
(*   [k |-> "const", v]    lambda *args: v                                 *)
(*   [k |-> "sum"]         lambda *args: sum(args)                         *)
(*   [k |-> "poly"]        lambda *args: the digits args read as a number  *)
(*   [k |-> "bcast", ...]  _broadcast.broadcasted_function                 *)
(*   [k |-> "comp", ...]   the lambda of _compose                          *)
(***************************************************************************)
FunctionField(func, domain, constant) ==
    [kind |-> "fn", domain |-> domain, func |-> func, constant |-> constant]

ConstFunc(v) == [k |-> "const", v |-> v]

SumFunc == [k |-> "sum", v |-> 0]

RECURSIVE SeqSum(_)
SeqSum(s) == IF s = <<>> THEN 0 ELSE Head(s) + SeqSum(Tail(s))

\* a tuple of digits read as a number: tells the positions of a tuple apart
RECURSIVE Lin(_)
Lin(i) == IF i = <<>> THEN 0 ELSE 10 * Lin(SubSeq(i, 1, Len(i) - 1)) + i[Len(i)]

\* a generator that tells its arguments apart
PolyFunc == [k |-> "poly", v |-> 0]

has_empty_domain(f) == Len(f.domain) < 1

\* [args[i] for i, dim in enumerate(dims) if dim in field.domain.dims]
RECURSIVE selected_args(_, _)
selected_args(args, sel) ==
    IF args = <<>> \/ sel = <<>> THEN <<>>
    ELSE (IF Head(sel) THEN <<Head(args)>> ELSE <<>>) \o selected_args(Tail(args), Tail(sel))

\* _broadcast.broadcasted_function with every argument handed on
broadcasted_function_all_args(field, dims) ==
    [k |-> "bcast", f |-> field.func,
     sel |-> [i \in 1..Len(dims) |-> TRUE],
     empty |-> has_empty_domain(field)]

\* _broadcast.broadcasted_function, closed over field and dims
broadcasted_function(field, dims) ==
    [k |-> "bcast", f |-> field.func,
     sel |-> [i \in 1..Len(dims) |->
                \E p \in 1..Len(field.domain) : field.domain[p].dim = dims[i]],
     empty |-> has_empty_domain(field)]

\* _compose(operation, *fields): lambda *args: operation(*[f.func(*args) for f in fields])
compose(operation, fs) ==
    [k |-> "comp", op |-> operation, fs |-> [i \in 1..Len(fs) |-> fs[i].func]]

\* func(*args)
RECURSIVE CallFunc(_, _)
CallFunc(func, args) ==
    IF func.k = "const" THEN func.v
    ELSE IF func.k = "sum" THEN SeqSum(args)
    ELSE IF func.k = "poly" THEN Lin(args)
    ELSE IF func.k = "bcast"
    THEN CallFunc(func.f, IF func.empty THEN args ELSE selected_args(args, func.sel))
    ELSE IF Len(func.fs) = 1 THEN ApplyUnary(func.op, CallFunc(func.fs[1], args))
    ELSE ApplyOp(func.op, CallFunc(func.fs[1], args), CallFunc(func.fs[2], args))

\* whether func(*index_arrays) is an array: only if it reads an index array
RECURSIVE ReadsArgs(_, _)
ReadsArgs(func, nargs) ==
    IF func.k = "const" THEN FALSE
    ELSE IF func.k \in {"sum", "poly"} THEN nargs > 0
    ELSE IF func.k = "bcast"
    THEN ReadsArgs(func.f, IF func.empty THEN nargs
                           ELSE Len(selected_args([i \in 1..nargs |-> 0], func.sel)))
    ELSE \E i \in 1..Len(func.fs) : ReadsArgs(func.fs[i], nargs)

\* constant_field
constant_field(value, domain) == FunctionField(ConstFunc(value), domain, TRUE)

\* FunctionField.restrict
fn_restrict(f, index) ==
    IF has_empty_domain(f) THEN Err("IndexError")
    ELSE Bind(sub_domain(f.domain, index), LAMBDA nd :
            IF ~nd.ok THEN nd ELSE Ok(FunctionField(f.func, nd.val, FALSE)))

\* FunctionField.ndarray that never takes the np.full branch
fn_ndarray_fromfunction(f) ==
    IF has_empty_domain(f) THEN Err("ValueError")
    ELSE IF \E k \in 1..Len(f.domain) :
                InfPos \in {Abs(f.domain[k].rng.start), Abs(f.domain[k].rng.stop)}
    THEN Err("ValueError")
    ELSE LET shape == [k \in 1..Len(f.domain) |-> RangeLen(f.domain[k].rng)]
         IN  IF ReadsArgs(f.func, Len(shape))
             THEN Ok([kind |-> "array", shape |-> shape, dtype |-> "int",
                      data |-> [i \in IdxSet(shape) |-> CallFunc(f.func, i)]])
             ELSE Ok(Scalar(CallFunc(f.func, <<>>)))

\* FunctionField.ndarray: np.full for a constant field, else np.fromfunction,
\* which hands func the 0-based index arrays of the shape and returns what
\* func returns
fn_ndarray(f) ==
    IF has_empty_domain(f) THEN Err("ValueError")
    ELSE IF \E k \in 1..Len(f.domain) :
                InfPos \in {Abs(f.domain[k].rng.start), Abs(f.domain[k].rng.stop)}
    THEN Err("ValueError")
    ELSE LET shape == [k \in 1..Len(f.domain) |-> RangeLen(f.domain[k].rng)]
         IN  IF f.constant
             THEN Ok([kind |-> "array", shape |-> shape, dtype |-> "int",
                      data |-> [i \in IdxSet(shape) |-> CallFunc(f.func, <<>>)]])
             ELSE IF ReadsArgs(f.func, Len(shape))
             THEN Ok([kind |-> "array", shape |-> shape, dtype |-> "int",
                      data |-> [i \in IdxSet(shape) |-> CallFunc(f.func, i)]])
             ELSE Ok(Scalar(CallFunc(f.func, <<>>)))

\* FunctionField.__call__(*args, **kwargs)
fn_call(f, nargs) == Err("NotImplementedError")

\* FunctionField.remap(*args, **kwargs)
fn_remap(f, nargs) == Err("NotImplementedError")

\* function_field._broadcast
fn_broadcast(field, dims) ==
    FunctionField(broadcasted_function(field, dims),
                  [k \in 1..Len(dims) |-> NamedRange(dims[k], UnitRange_infinity)], FALSE)

\* FunctionField._handle_identity_op
handle_identity_op(self, other, operator_func) ==
    Bind(DomainAnd(self.domain, other.domain), LAMBDA domain_intersection :
        FunctionField(compose(operator_func,
                              <<fn_broadcast(self, DomainDims(domain_intersection)),
                                fn_broadcast(other, DomainDims(domain_intersection))>>),
                      domain_intersection, FALSE))

\* what .ndarray of a function field gives, as an operand of an array operator
AsArray(v) == IF v.kind = "scalar" THEN ScalarArr(v.v) ELSE v

\* FunctionField._handle_empty_domain_op
handle_empty_domain_op(heap, self, other, op) ==
    Bind(fn_ndarray(FunctionField(self.func, other.domain, FALSE)), LAMBDA x :
        IF ~x.ok THEN x
        ELSE Bind(Elementwise(op, AsArray(x.val), ViewArr(heap, other.arr)), LAMBDA new_data :
                IF ~new_data.ok THEN new_data
                ELSE FromNewData(heap, new_data.val, other.domain)))

\* FunctionField._handle_non_empty_domain_op
handle_non_empty_domain_op(heap, self, other, op) ==
    Bind(DomainAnd(self.domain, other.domain), LAMBDA domain_intersection :
    Bind(broadcast(heap, other, DomainDims(domain_intersection)), LAMBDA ob :
        IF ~ob.ok THEN ob
        ELSE
    Bind(get_slices_from_domain_slice(ob.val.domain, DomainAsSlice(domain_intersection), 1),
         LAMBDA other_slices :
        IF ~other_slices.ok THEN other_slices
        ELSE
    Bind(fn_ndarray(FunctionField(self.func, domain_intersection, FALSE)), LAMBDA x :
        IF ~x.ok THEN x
        ELSE
    Bind(NdIndex(ob.val.arr, other_slices.val), LAMBDA ov :
        IF ~ov.ok THEN ov
        ELSE
    Bind(Elementwise(op, AsArray(x.val), ViewArr(heap, ov.val)), LAMBDA new_data :
        IF ~new_data.ok THEN new_data
        ELSE FromNewData(heap, new_data.val, domain_intersection)))))))

\* FunctionField._binary_operation
fn_binary_operation(heap, self, op, other) ==
    IF other.kind = "nd"
    THEN IF has_empty_domain(self) THEN handle_empty_domain_op(heap, self, other, op)
         ELSE handle_non_empty_domain_op(heap, self, other, op)
    ELSE IF other.kind = "fn"
    THEN Ok([heap |-> heap, field |-> handle_identity_op(self, other, op)])
    ELSE Err("ValueError")

(***************************************************************************)
(* The inputs: buffers, domains and index specifications.                  *)
(***************************************************************************)
Starts == 0..MaxStart

Coords == 0..(MaxStart + MaxLen)

Lens == 1..MaxLen

FinRanges(lens) == {UnitRange(a, a + n) : a \in Starts, n \in lens}

\* the unbounded range, and a range unbounded on one end only
InfRanges == {UnitRange_infinity, UnitRange(0, InfPos)}

DomainsOver(ranges) ==
    {EMPTY_DOMAIN}
        \cup {<<NamedRange(d, r)>> : d \in Dims, r \in ranges}
        \cup {<<NamedRange("I", r1), NamedRange("J", r2)>> : r1 \in ranges, r2 \in ranges}

ShapesOver(lens) ==
    {<<>>} \cup {<<n>> : n \in lens} \cup {<<n, MaxLen>> : n \in lens}

AllShapes == ShapesOver(Lens)

AllDomains == DomainsOver(FinRanges(Lens) \cup InfRanges)

\* the caller's data: every element names its buffer and its position
Arange(heap, shape, dtype) ==
    [shape |-> shape, dtype |-> dtype,
     data |-> [i \in IdxSet(shape) |-> 100 * (Len(heap) + 1) + Lin(i)]]

IdxRanges == {r \in {UnitRange(a, b) : a \in Coords, b \in Coords} : r.start < r.stop}

Elems(d) == {NamedRng(d, r) : r \in IdxRanges} \cup {NamedIdx(d, i) : i \in Coords}

\* an index naming one dimension, or both
Indices1 == {<<>>} \cup {<<e>> : e \in Elems("I") \cup Elems("J")}

Indices ==
    Indices1
        \cup {<<NamedIdx("I", i), NamedIdx("J", j)>> : i \in Coords, j \in Coords}
        \cup {<<NamedRng("I", r1), NamedRng("J", r2)>> : r1 \in IdxRanges, r2 \in IdxRanges}

\* a named value that is neither a range nor an integer
NamedObject(d) == [dim |-> d, kind |-> "object", rng |-> UnitRange(0, 0), idx |-> 0]

\* domain slices with a named value of another kind
OddIndices ==
    {<<NamedObject(d)>> : d \in Dims}
        \cup {<<NamedObject("I"), e>> : e \in Elems("J")}
        \cup {<<e, NamedObject("J")>> : e \in Elems("I")}

ArrayOps == {"add", "sub"}

\* the values of constant fields
ConstValues == {5, 8}

(***************************************************************************)
(* The state: the heap of buffers, the fields the client holds, the last   *)
(* call with what it returned, and the number of calls made.               *)
(***************************************************************************)
\* what a returned value shows: an array-backed field with its elements
Shown(heap, f) ==
    IF f.kind = "nd"
    THEN [kind |-> "nd", domain |-> f.domain, arr |-> ViewArr(heap, f.arr), view |-> f.arr]
    ELSE f

Call(op, a, b, index, opn, inp) ==
    [op |-> op, a |-> a, b |-> b, index |-> index, opn |-> opn, inp |-> inp]

Returned(call, v) ==
    [op |-> call.op, a |-> call.a, b |-> call.b, index |-> call.index, opn |-> call.opn,
     inp |-> call.inp, ok |-> TRUE, err |-> "", res |-> v]

Raised(call, e) ==
    [op |-> call.op, a |-> call.a, b |-> call.b, index |-> call.index, opn |-> call.opn,
     inp |-> call.inp, ok |-> FALSE, err |-> e, res |-> <<>>]

NoCall == Returned(Call("init", 0, 0, <<>>, "", <<>>), <<>>)

NdFields == {i \in 1..Len(fields) : fields[i].kind = "nd"}

FnFields == {i \in 1..Len(fields) : fields[i].kind = "fn"}

\* the client keeps a returned field while the store has room
Keep(heap, f) ==
    IF Len(fields) < MaxFields
    THEN fields' = Append(fields, f) /\ bufs' = heap
    ELSE UNCHANGED <<fields, bufs>>

\* a call that returns a field over the heap `heap`, or raises
Finish(call, r, heap, f) ==
    /\ calls' = calls + 1
    /\ registry' = registry
    /\ IF r.ok
       THEN last' = Returned(call, Shown(heap, f)) /\ Keep(heap, f)
       ELSE last' = Raised(call, r.err) /\ UNCHANGED <<fields, bufs>>

\* NumPyArrayField.from_array(data, domain=domain) on the caller's data
FromArray(shapes, dtypes, domains) ==
    /\ Len(fields) < MaxFields
    /\ \E shape \in shapes, dtype \in dtypes, domain \in domains :
          \E r \in {FromNewData(bufs, Arange(bufs, shape, dtype), domain)} :
              LET c == Call("from_array", 0, 0, <<>>, "", [shape |-> shape, dtype |-> dtype, domain |-> domain])
              IN  Finish(c, r, IF r.ok THEN r.val.heap ELSE bufs, IF r.ok THEN r.val.field ELSE <<>>)

\* field[index] of an array-backed field
Restrict(indices) ==
    \E a \in NdFields, index \in indices :
        \E r \in {restrict(bufs, fields[a], index)} :
        LET c == Call("restrict", a, 0, index, "", <<>>)
        IN  IF r.ok /\ r.val.kind = "scalar"
            THEN last' = Returned(c, r.val) /\ calls' = calls + 1
                 /\ UNCHANGED <<fields, bufs, registry>>
            ELSE Finish(c, r, bufs, r.val)

\* a op b of two array-backed fields
BinaryOp ==
    \E a \in NdFields, b \in NdFields, op \in ArrayOps :
        \E r \in {builtin_binary_op(bufs, op, fields[a], fields[b])} :
        LET c == Call("binary", a, b, <<>>, op, <<>>)
        IN  Finish(c, r, IF r.ok THEN r.val.heap ELSE bufs, IF r.ok THEN r.val.field ELSE <<>>)

\* -a, abs(a) of an array-backed field
UnaryOp ==
    \E a \in NdFields, op \in {"neg", "abs"} :
        \E r \in {builtin_unary_op(bufs, op, fields[a])} :
        LET c == Call("unary", a, 0, <<>>, op, <<>>)
        IN  Finish(c, r, IF r.ok THEN r.val.heap ELSE bufs, IF r.ok THEN r.val.field ELSE <<>>)

\* broadcast(field, new_dimensions) of an array-backed field
Broadcast(dimss) ==
    \E a \in NdFields, dims \in dimss :
        \E r \in {broadcast(bufs, fields[a], dims)} :
        LET c == Call("broadcast", a, 0, <<>>, "", dims)
        IN  Finish(c, r, bufs, r.val)

\* target[index] = value, value a scalar or an array-backed field
SetItem(indices) ==
    /\ \E t \in NdFields, index \in indices, v \in NdFields \cup {0} :
          \E r \in {np_cp_setitem(bufs, fields[t], index, IF v = 0 THEN Scalar(7) ELSE fields[v])} :
          LET c == Call("setitem", t, v, index, "", <<>>)
          IN  IF r.ok
              THEN /\ bufs' = r.val.heap
                   /\ last' = Returned(c, [kind |-> "none", target |-> r.val.target])
              ELSE /\ bufs' = bufs
                   /\ last' = Raised(c, r.err)
    /\ calls' = calls + 1
    /\ UNCHANGED <<fields, registry>>

\* constant_field(value, domain) and FunctionField(func, domain)
NewFunctionField(funcs, domains) ==
    /\ Len(fields) < MaxFields
    /\ \E domain \in domains, func \in funcs :
          LET f == IF func.k = "const" THEN constant_field(func.v, domain)
                   ELSE FunctionField(func, domain, FALSE)
              c == Call("function_field", 0, 0, <<>>, "", [func |-> func, domain |-> domain])
          IN  Finish(c, Ok(f), bufs, f)

\* field[index] of a function field
FnRestrict(indices) ==
    \E a \in FnFields, index \in indices :
        \E r \in {fn_restrict(fields[a], index)} :
        LET c == Call("fn_restrict", a, 0, index, "", <<>>)
        IN  Finish(c, r, bufs, r.val)

\* field.ndarray of a function field
FnNdarray ==
    /\ \E a \in FnFields :
          \E r \in {fn_ndarray(fields[a])} :
          LET c == Call("fn_ndarray", a, 0, <<>>, "", <<>>)
          IN  last' = IF r.ok THEN Returned(c, r.val) ELSE Raised(c, r.err)
    /\ calls' = calls + 1
    /\ UNCHANGED <<fields, bufs, registry>>

\* _get_slices_from_domain_slice(domain, domain_slice), called on its own
SlicesFromDomain(domains, domain_slices) ==
    /\ \E domain \in domains, domain_slice \in domain_slices :
          \E r \in {get_slices_from_domain_slice(domain, domain_slice, 1)} :
          LET c == Call("slices", 0, 0, domain_slice, "", domain)
          IN  last' = IF r.ok THEN Returned(c, r.val) ELSE Raised(c, r.err)
    /\ calls' = calls + 1
    /\ UNCHANGED <<fields, bufs, registry>>

\* field(*args) and field.remap(*args) of a field of either kind
Invoke(methods, nargss) ==
    /\ \E a \in 1..Len(fields), m \in methods, nargs \in nargss :
          \E r \in {IF fields[a].kind = "nd"
                     THEN (IF m = "call" THEN nd_call(fields[a], nargs)
                           ELSE nd_remap(fields[a], nargs))
                     ELSE (IF m = "call" THEN fn_call(fields[a], nargs)
                           ELSE fn_remap(fields[a], nargs))} :
          LET c == Call(m, a, 0, <<>>, "", nargs)
          IN  last' = IF r.ok THEN Returned(c, r.val) ELSE Raised(c, r.err)
    /\ calls' = calls + 1
    /\ UNCHANGED <<fields, bufs, registry>>

\* cls.register_builtin_func(op, op_func), op_func "None" the decorator mode
Register(classes, ops, op_funcs) ==
    /\ \E cls \in classes, op \in ops, op_func \in op_funcs :
          \E r \in {register_builtin_func(registry, op, op_func)} :
          LET c == Call("register", 0, 0, <<>>, "", [cls |-> cls, op |-> op, op_func |-> op_func])
          IN  IF r.ok
              THEN registry' = r.val.map /\ last' = Returned(c, r.val.ret)
              ELSE registry' = registry /\ last' = Raised(c, r.err)
    /\ calls' = calls + 1
    /\ UNCHANGED <<fields, bufs>>

\* the partial application a decorator-mode call returned, applied to the
\* decorated function
Decorate(op_funcs) ==
    /\ last.op = "register" /\ last.ok /\ last.res.kind = "partial"
    /\ \E op_func \in op_funcs :
          \E r \in {register_builtin_func(registry, last.res.op, op_func)} :
          LET c == Call("register", 0, 0, <<>>, "",
                        [cls |-> last.inp.cls, op |-> last.res.op, op_func |-> op_func])
          IN  IF r.ok
              THEN registry' = r.val.map /\ last' = Returned(c, r.val.ret)
              ELSE registry' = registry /\ last' = Raised(c, r.err)
    /\ calls' = calls + 1
    /\ UNCHANGED <<fields, bufs>>

\* cls.__gt_builtin_func__(func)
Lookup(classes, ops) ==
    /\ \E cls \in classes, op \in ops :
          LET c == Call("lookup", 0, 0, <<>>, "", [cls |-> cls, op |-> op, op_func |-> "None"])
          IN  last' = Returned(c, [kind |-> "impl", op |-> op, f |-> gt_builtin_func(registry, op)])
    /\ calls' = calls + 1
    /\ UNCHANGED <<fields, bufs, registry>>

\* the other operand of an operator: a field of the store, the scalar 7, or
\* an object that is neither a field nor a scalar
Operand(b) ==
    IF b > 0 THEN fields[b] ELSE IF b = 0 THEN Scalar(7) ELSE [kind |-> "object", v |-> 0]

\* f op other of a function field f
FnBinaryOp(others) ==
    \E a \in FnFields, b \in others, op \in ArrayOps :
        /\ b <= Len(fields)
        /\ \E r \in {fn_binary_operation(bufs, fields[a], op, Operand(b))} :
           LET c == Call("fn_binary", a, b, <<>>, op, <<>>)
           IN  Finish(c, r, IF r.ok THEN r.val.heap ELSE bufs, IF r.ok THEN r.val.field ELSE <<>>)

\* a op other of an array-backed field a
NdBinaryOp(others) ==
    \E a \in NdFields, b \in others, op \in ArrayOps :
        /\ b <= Len(fields)
        /\ \E r \in {builtin_binary_op_any(bufs, op, fields[a], Operand(b))} :
           LET c == Call("nd_binary", a, b, <<>>, op, <<>>)
           IN  Finish(c, r, IF r.ok THEN r.val.heap ELSE bufs, IF r.ok THEN r.val.field ELSE <<>>)

(***************************************************************************)
(* The client's life with its fields: any MaxCalls calls, on the inputs of *)
(* one buffer length.                                                      *)
(***************************************************************************)
Init ==
    /\ bufs = <<>>
    /\ fields = <<>>
    /\ calls = 0
    /\ last = NoCall
    /\ registry = ModuleRegistry

SomeShapes == {<<MaxLen>>, <<MaxLen, MaxLen>>}

SomeDomains ==
    {<<NamedRange("I", UnitRange(a, a + MaxLen))>> : a \in {0, MaxStart}}
        \cup {<<NamedRange("I", UnitRange(0, MaxLen)), NamedRange("J", UnitRange(0, MaxLen))>>}

\* indices of the lifecycle: nothing, a part of an axis, one coordinate
SomeIndices ==
    {<<>>}
        \cup {<<NamedRng("I", UnitRange(a, a + MaxLen - 1))>> : a \in 0..1}
        \cup {<<NamedRng("J", UnitRange(1, MaxLen))>>,
              <<NamedIdx("I", 1)>>, <<NamedIdx("J", 0)>>}

SomeFnDomains == {EMPTY_DOMAIN, <<NamedRange("I", UnitRange(0, MaxLen))>>}

Next ==
    \/ calls < MaxCalls /\ FromArray(SomeShapes, {"int"}, SomeDomains)
    \/ calls < MaxCalls /\ Restrict(SomeIndices)
    \/ calls < MaxCalls /\ BinaryOp
    \/ calls < MaxCalls /\ UnaryOp
    \/ calls < MaxCalls /\ Broadcast({<<"I">>, <<"I", "J">>})
    \/ calls < MaxCalls /\ SetItem(SomeIndices)
    \/ calls < MaxCalls /\ NewFunctionField({ConstFunc(5)}, SomeFnDomains)
    \/ calls < MaxCalls /\ FnRestrict(SomeIndices)
    \/ calls < MaxCalls /\ FnNdarray

Spec == Init /\ [][Next]_vars

(***************************************************************************)
(* One call on every input.  The stores these start from are those the     *)
(* client has after from_array on its own buffers.                         *)
(***************************************************************************)
\* the (shape, domain) pairs from_array accepts
ValidArrays ==
    {x \in [shape : AllShapes, domain : AllDomains] :
        FromNewData(<<>>, Arange(<<>>, x.shape, "int"), x.domain).ok}

RECURSIVE StoreOf(_)
StoreOf(xs) ==
    IF xs = <<>> THEN [heap |-> <<>>, fields |-> <<>>]
    ELSE Bind(StoreOf(SubSeq(xs, 1, Len(xs) - 1)), LAMBDA s :
         Bind(FromNewData(s.heap, Arange(s.heap, xs[Len(xs)].shape, "int"), xs[Len(xs)].domain),
              LAMBDA r : [heap |-> r.val.heap, fields |-> Append(s.fields, r.val.field)]))

InitStores(S) ==
    /\ \E xs \in S : \E s \in {StoreOf(xs)} : bufs = s.heap /\ fields = s.fields
    /\ calls = 0
    /\ last = NoCall
    /\ registry = ModuleRegistry

\* from_array on every buffer and domain
NextFromArray == calls < 1 /\ FromArray(AllShapes, {"int", "str"}, AllDomains)

SpecFromArray == Init /\ [][NextFromArray]_vars

\* one field, and every index
InitOne == InitStores({<<x>> : x \in ValidArrays})

NextRestrict == calls < 1 /\ Restrict(Indices)

SpecRestrict == InitOne /\ [][NextRestrict]_vars

\* two fields, and every operator
InitTwo == InitStores({<<x, y>> : x \in ValidArrays, y \in ValidArrays})

NextBinary == calls < 1 /\ BinaryOp

SpecBinary == InitTwo /\ [][NextBinary]_vars

\* function fields over every domain: made, restricted, materialized
NextFunction ==
    \/ calls = 0 /\ NewFunctionField({ConstFunc(v) : v \in ConstValues} \cup {SumFunc}, AllDomains)
    \/ calls = 1 /\ FnRestrict(Indices)
    \/ calls \in 1..2 /\ FnNdarray

SpecFunction == Init /\ [][NextFunction]_vars

\* the buffer slices of every domain for every domain slice
NextSlices == calls < 1 /\ SlicesFromDomain(AllDomains, Indices \cup OddIndices)

SpecSlices == Init /\ [][NextSlices]_vars

\* the registry after the module is loaded: registrations and lookups
FieldClasses == {"NumPyArrayField", "CuPyArrayField", "JaxArrayField"}

BuiltIns == {"abs", "broadcast", "where", "astype"}

Implementations == {"impl_a", "impl_b"}

NextRegistry ==
    \/ calls < MaxCalls /\ Register(FieldClasses, BuiltIns, Implementations \cup {"None"})
    \/ calls < MaxCalls /\ Decorate(Implementations)
    \/ calls < MaxCalls /\ Lookup(FieldClasses, BuiltIns)

SpecRegistry == Init /\ [][NextRegistry]_vars

\* one field, broadcast over every dimension tuple
DimTuples == {<<"I">>, <<"J">>, <<"I", "J">>, <<"J", "I">>}

NextBroadcast == calls < 1 /\ Broadcast(DimTuples)

SpecBroadcast == InitOne /\ [][NextBroadcast]_vars

\* a function field and a second operand: every operator of the function field
FnRanges ==
    {UnitRange(a, a + MaxLen) : a \in {0, MaxStart}} \cup {UnitRange_infinity}

FnInputs ==
    {FunctionField(g, d, FALSE) : g \in {SumFunc, PolyFunc}, d \in DomainsOver(FnRanges)}
        \cup {constant_field(5, d) : d \in DomainsOver(FnRanges)}

InitFnBinary ==
    /\ \E f \in FnInputs :
          \/ \E g \in FnInputs : bufs = <<>> /\ fields = <<f, g>>
          \/ \E x \in ValidArrays : \E s \in {StoreOf(<<x>>)} :
                bufs = s.heap /\ fields = <<f>> \o s.fields
    /\ calls = 0
    /\ last = NoCall
    /\ registry = ModuleRegistry

NextFnBinary ==
    \/ calls < 1 /\ FnBinaryOp({0 - 1, 0, 2})
    \/ calls < 1 /\ NdBinaryOp({0 - 1, 0, 1})

SpecFnBinary == InitFnBinary /\ [][NextFnBinary]_vars

\* one field of either kind, called and remapped
InitAnyField ==
    \/ InitOne
    \/ /\ \E f \in FnInputs : fields = <<f>>
       /\ bufs = <<>>
       /\ calls = 0
       /\ last = NoCall
       /\ registry = ModuleRegistry

NextInvoke == calls < MaxCalls /\ Invoke({"call", "remap"}, 0..2)

SpecInvoke == InitAnyField /\ [][NextInvoke]_vars

(***************************************************************************)
(* The vocabulary of the properties: the coordinates of a domain, and the  *)
(* element a field holds at a coordinate.                                  *)
(***************************************************************************)
\* the coordinates looked at: the bounded ranges of the model and one beyond
Window == (0 - 1)..(MaxStart + MaxLen + 1)

\* a point gives every dimension a coordinate
Points == [Dims -> Window]

InRange(r, x) == r.start <= x /\ x < r.stop

InDomain(dom, c) == \A k \in 1..Len(dom) : InRange(dom[k].rng, c[dom[k].dim])

IsUnbounded(r) == InfPos \in {Abs(r.start), Abs(r.stop)}

IsBounded(dom) == \A k \in 1..Len(dom) : ~IsUnbounded(dom[k].rng)

\* the element of a shown field at the point c of its domain: on an unbounded
\* axis the one element the axis holds
ValueAt(f, c) ==
    f.arr.data[[k \in 1..Len(f.domain) |->
                  IF f.domain[k].rng = UnitRange_infinity THEN 0
                  ELSE c[f.domain[k].dim] - f.domain[k].rng.start]]

\* d has the dimensions of d1 and d2 together, in dimension order, and holds
\* the points that lie in both
IsIntersection(d, d1, d2) ==
    /\ {d[k].dim : k \in 1..Len(d)}
          = {d1[k].dim : k \in 1..Len(d1)} \cup {d2[k].dim : k \in 1..Len(d2)}
    /\ \A k \in 1..(Len(d) - 1) : DimPos(d[k].dim) < DimPos(d[k + 1].dim)
    /\ \A c \in Points : InDomain(d, c) <=> (InDomain(d1, c) /\ InDomain(d2, c))

(***************************************************************************)
(* Binary operators of array-backed fields.                                *)
(***************************************************************************)
\* C1: a binary operator on two array-backed fields a and b with different
\* domains returns a field over the intersection of the two dimension-aligned
\* domains, whose element at every coordinate c of the intersection is
\* op(a at c, b at c).
C1_BinaryOnIntersection ==
    (last.op = "binary" /\ fields[last.a].domain # fields[last.b].domain) =>
        /\ last.ok
        /\ last.res.kind = "nd"
        /\ IsIntersection(last.res.domain, fields[last.a].domain, fields[last.b].domain)
        /\ \A c \in Points :
              InDomain(last.res.domain, c) =>
                  ValueAt(last.res, c)
                      = ApplyOp(last.opn, ValueAt(Shown(bufs, fields[last.a]), c),
                                          ValueAt(Shown(bufs, fields[last.b]), c))

\* two fields that overlap on an axis where they start apart, by two
\* coordinates or more
C1_OverlapReached ==
    /\ last.op = "binary"
    /\ last.ok
    /\ \E k \in 1..Len(last.res.domain) :
          LET pa == find_index_of_dim(last.res.domain[k].dim, fields[last.a].domain)
              pb == find_index_of_dim(last.res.domain[k].dim, fields[last.b].domain)
          IN  /\ pa # 0
              /\ pb # 0
              /\ ~IsUnbounded(fields[last.a].domain[pa].rng)
              /\ ~IsUnbounded(fields[last.b].domain[pb].rng)
              /\ fields[last.a].domain[pa].rng.start # fields[last.b].domain[pb].rng.start
              /\ RangeLen(last.res.domain[k].rng) >= 2

(***************************************************************************)
(* Restriction of array-backed fields.                                     *)
(***************************************************************************)
\* the index names sub-ranges only, each on an axis of dom, each axis once
IsRangeIndex(dom, index) ==
    /\ index # <<>>
    /\ \A p \in 1..Len(index) :
          /\ index[p].kind = "rng"
          /\ find_index_of_dim(index[p].dim, dom) # 0
          /\ find_index_of_dim(index[p].dim, index) = p

\* every sub-range of the index lies inside the range of its axis
IsContained(dom, index) ==
    \A p \in 1..Len(index) :
        LET r == dom[find_index_of_dim(index[p].dim, dom)].rng
        IN  r.start <= index[p].rng.start /\ index[p].rng.stop <= r.stop

\* dom is the domain f with every axis the index names narrowed to the
\* coordinates of the axis that lie in the named sub-range
IsNarrowed(dom, f, index) ==
    /\ Len(dom) = Len(f)
    /\ \A k \in 1..Len(dom) :
          /\ dom[k].dim = f[k].dim
          /\ LET p == find_index_of_dim(f[k].dim, index)
             IN  IF p = 0 THEN dom[k].rng = f[k].rng
                 ELSE /\ dom[k].rng.start <= dom[k].rng.stop
                      /\ \A x \in Window :
                            InRange(dom[k].rng, x)
                                <=> (InRange(f[k].rng, x) /\ InRange(index[p].rng, x))

\* the last call restricted a field to a field over the narrowed domain that
\* holds, at each of its coordinates, what the restricted field holds there
RestrictedToSubRange ==
    /\ last.ok
    /\ last.res.kind = "nd"
    /\ IsNarrowed(last.res.domain, fields[last.a].domain, last.index)
    /\ \A c \in Points :
          InDomain(last.res.domain, c) =>
              ValueAt(last.res, c) = ValueAt(Shown(bufs, fields[last.a]), c)

Meet(R1, R2) ==
    [p \in 1..Len(R1) |->
        NamedRng(R1[p].dim, RangeAnd(R1[p].rng, R2[find_index_of_dim(R1[p].dim, R2)].rng))]

\* R2 names the axes R1 names
OnSameAxes(R1, R2) ==
    /\ \A p \in 1..Len(R2) : R2[p].kind = "rng" /\ find_index_of_dim(R2[p].dim, R2) = p
    /\ {R1[p].dim : p \in 1..Len(R1)} = {R2[p].dim : p \in 1..Len(R2)}

\* every sub-range of R2 lies inside the sub-range R1 has on its axis
IsWithin(R1, R2) ==
    \A p \in 1..Len(R2) :
        LET r == R1[find_index_of_dim(R2[p].dim, R1)].rng
        IN  r.start <= R2[p].rng.start /\ R2[p].rng.stop <= r.stop

\* two restrictions ended alike: both raised, or both returned fields of one
\* domain and the same elements
SameOutcome(l, r) ==
    /\ l.ok = r.ok
    /\ l.ok => /\ l.val.domain = r.val.domain
               /\ ViewArr(bufs, l.val.arr) = ViewArr(bufs, r.val.arr)

\* the axes R names have, in dom, the lengths of the sub-ranges of R
HasLengthsOf(dom, R) ==
    \A p \in 1..Len(R) :
        RangeLen(dom[find_index_of_dim(R[p].dim, dom)].rng) = RangeLen(R[p].rng)

IsPointIndex(dom, index) ==
    /\ Len(dom) >= 1
    /\ Len(index) = Len(dom)
    /\ \A k \in 1..Len(dom) :
          LET p == find_index_of_dim(dom[k].dim, index)
          IN  p # 0 /\ index[p].kind = "idx" /\ InRange(dom[k].rng, index[p].idx)

\* the point a point index names
PointOf(index) ==
    [d \in Dims |->
        IF find_index_of_dim(d, index) = 0 THEN 0
        ELSE index[find_index_of_dim(d, index)].idx]

\* C4: when the index names a single in-range integer for every axis of an
\* array-backed field, restrict returns a scalar, the buffer element stored
\* for that coordinate.
C4_PointIndexGivesScalar ==
    (last.op = "restrict" /\ IsPointIndex(fields[last.a].domain, last.index)) =>
        /\ last.ok
        /\ last.res.kind = "scalar"
        /\ last.res.v = ValueAt(Shown(bufs, fields[last.a]), PointOf(last.index))

(***************************************************************************)
(* Construction from a buffer.                                             *)
(***************************************************************************)
\* the buffer has one axis per range of the domain and, axis by axis, the
\* length of the range, or length 1 under the range unbounded on both ends
ShapeMatches(shape, domain) ==
    /\ Len(shape) = Len(domain)
    /\ \A k \in 1..Len(domain) :
          \/ RangeLen(domain[k].rng) = shape[k]
          \/ (domain[k].rng = UnitRange_infinity /\ shape[k] = 1)

\* the last call made the field of the given domain over the whole of a new
\* buffer, or raised a construction error and made nothing
MadeFieldIff(accepted) ==
    /\ last.ok = accepted
    /\ last.ok => /\ Len(fields) = 1 /\ Len(bufs) = 1
                  /\ fields[1].domain = last.inp.domain
                  /\ fields[1].arr = IdentityView(1, last.inp.shape)
    /\ ~last.ok => last.err = "AssertionError" /\ fields = <<>> /\ bufs = <<>>

\* C5 as stated: from_array succeeds exactly when the buffer rank equals the
\* number of domain axes and every axis has the length of its range, or
\* length 1 under an unbounded range; otherwise it fails with a construction
\* error and makes no field.
C5_FromArrayIffShapeMatches ==
    last.op = "from_array" => MadeFieldIff(ShapeMatches(last.inp.shape, last.inp.domain))

\* C5: from_array succeeds exactly when the buffer's element type is numeric
\* or boolean, the buffer rank equals the number of domain axes and every axis
\* has the length of its range, or length 1 under the range unbounded on both
\* ends; otherwise it fails with a construction error and makes no field.
C5_FromArrayIffScalarTypeAndShapeMatches ==
    last.op = "from_array" =>
        MadeFieldIff(/\ IsScalarDType(last.inp.dtype)
                     /\ ShapeMatches(last.inp.shape, last.inp.domain))

\* a 2x3 buffer made a field over ranges of the lengths 2 and 3
C5_TwoByThreeReached ==
    /\ last.op = "from_array"
    /\ last.ok
    /\ last.inp.shape = <<2, 3>>
    /\ RangeLen(fields[1].domain[1].rng) = 2
    /\ RangeLen(fields[1].domain[2].rng) = 3

(***************************************************************************)
(* Indexed assignment, and what the operations leave alone.                *)
(***************************************************************************)
\* the step is target[index] = value with a field as the value, whose domain
\* is not the sub-domain the index gives the target
AssignsOtherDomain ==
    /\ calls' = calls + 1
    /\ last'.op = "setitem"
    /\ last'.b # 0
    /\ \E s \in {slice_(fields[last'.a], last'.index)} :
          s.ok /\ fields[last'.b].domain # s.val.domain

\* C6: target[index] = value with a field value whose domain is not exactly
\* the target sub-domain of the index fails with the domain-mismatch error,
\* whatever the shapes, and leaves the buffers as they were.
C6_SetItemDomainMismatch ==
    [][AssignsOtherDomain => (~last'.ok /\ last'.err = "ValueError" /\ bufs' = bufs)]_vars

\* an assignment refused although the value has the shape of the target
C6_SameShapeRefused ==
    /\ last.op = "setitem"
    /\ last.b # 0
    /\ ~last.ok
    /\ last.err = "ValueError"
    /\ last.index = <<>>
    /\ Len(fields[last.a].domain) >= 1
    /\ fields[last.b].arr.shape = fields[last.a].arr.shape
    /\ fields[last.b].domain # fields[last.a].domain

\* the buffer positions a view selects
Selected(v) == {v.map[r] : r \in IdxSet(v.shape)}

\* C7: no step changes the domain of a field that exists, and a step changes
\* the contents of a buffer that exists only if it is an indexed assignment
\* into that buffer, and then only at the positions the target selector
\* selects.
C7_Frame ==
    [][/\ Len(fields') >= Len(fields)
       /\ \A i \in 1..Len(fields) : fields'[i].domain = fields[i].domain
       /\ Len(bufs') >= Len(bufs)
       /\ \A b \in 1..Len(bufs) :
             bufs'[b] # bufs[b] =>
                 /\ last'.op = "setitem"
                 /\ last'.ok
                 /\ last'.res.target.buf = b
                 /\ fields[last'.a].arr.buf = b
                 /\ bufs'[b].shape = bufs[b].shape
                 /\ \A i \in DOMAIN bufs[b].data :
                       bufs'[b].data[i] # bufs[b].data[i] => i \in Selected(last'.res.target)
      ]_vars

\* an assignment through a view that another field aliases has written a
\* part of the buffer and left a part
C7_PartWrittenReached ==
    /\ last.op = "setitem"
    /\ last.ok
    /\ Len(fields) = 2
    /\ fields[1].arr.buf = fields[2].arr.buf
    /\ \E i \in DOMAIN bufs[last.res.target.buf].data :
          i \in Selected(last.res.target) /\ bufs[last.res.target.buf].data[i] = 7
    /\ \E i \in DOMAIN bufs[last.res.target.buf].data :
          i \notin Selected(last.res.target) /\ bufs[last.res.target.buf].data[i] # 7

(***************************************************************************)
(* Function fields.                                                        *)
(***************************************************************************)
\* C8: indexing a function field of the empty domain with a non-empty index
\* raises EmptyDomainIndexError and returns no field.
C8_EmptyDomainIndexError ==
    (/\ last.op = "fn_restrict"
     /\ has_empty_domain(fields[last.a])
     /\ last.index # <<>>) => (~last.ok /\ last.err = "EmptyDomainIndexError")

\* the axis lengths of a domain, in axis order
LengthsOf(dom) == [k \in 1..Len(dom) |-> RangeLen(dom[k].rng)]

\* C9: materializing constant_field(v, domain) over a non-empty domain of
\* bounded ranges gives a dense array of the shape of the domain's axis
\* lengths, in axis order, every element of which is v.
C9_ConstantFieldMaterialized ==
    (/\ last.op = "fn_ndarray"
     /\ fields[last.a].constant
     /\ ~has_empty_domain(fields[last.a])
     /\ IsBounded(fields[last.a].domain)) =>
        /\ last.ok
        /\ last.res.kind = "array"
        /\ last.res.shape = LengthsOf(fields[last.a].domain)
        /\ DOMAIN last.res.data = IdxSet(LengthsOf(fields[last.a].domain))
        /\ \A i \in DOMAIN last.res.data : last.res.data[i] = fields[last.a].func.v

\* a constant field over two axes of different lengths made an array
C9_ThreeByTwoReached ==
    /\ last.op = "fn_ndarray"
    /\ last.ok
    /\ fields[last.a].constant
    /\ fields[last.a].func.v = 8
    /\ last.res.kind = "array"
    /\ last.res.shape = <<3, 2>>

\* C10: materializing a function field of the empty domain fails with
\* InvalidDomainForNdarrayError, one with an axis unbounded on either end
\* fails with the unbounded-range error, and every other one succeeds.
C10_MaterializationErrors ==
    last.op = "fn_ndarray" =>
        IF has_empty_domain(fields[last.a])
        THEN ~last.ok /\ last.err = "InvalidDomainForNdarrayError"
        ELSE IF ~IsBounded(fields[last.a].domain)
        THEN ~last.ok /\ last.err = "InfiniteRangeNdarrayError"
        ELSE last.ok

(***************************************************************************)
(* Binary operators of function fields.                                    *)
(***************************************************************************)
\* the argument tuples a generator over the domain dom is called with
ArgsOver(dom) == [1..Len(dom) -> Coords]

\* of the arguments x given for the axes of dom, those for the axes f has
OwnArgs(f, dom, x) ==
    selected_args(x, [k \in 1..Len(dom) |->
                        \E p \in 1..Len(f.domain) : f.domain[p].dim = dom[k].dim])

\* the last call was f1 op f2 of two function fields
FnFnCall ==
    /\ last.op = "fn_binary"
    /\ last.b > 0
    /\ fields[last.b].kind = "fn"

\* the call returned a function field over the intersection of the domains
\* whose generator combines the operands' values, each operand given the
\* arguments args(operand, domain, x)
ComposedOf(args(_, _, _)) ==
    LET f1 == fields[last.a]
        f2 == fields[last.b]
        g  == last.res
    IN  /\ last.ok
        /\ g.kind = "fn"
        /\ IsIntersection(g.domain, f1.domain, f2.domain)
        /\ (f1.domain = <<>> /\ f2.domain = <<>>) => g.domain = <<>>
        /\ \A x \in ArgsOver(g.domain) :
              CallFunc(g.func, x)
                  = ApplyOp(last.opn, CallFunc(f1.func, args(f1, g.domain, x)),
                                      CallFunc(f2.func, args(f2, g.domain, x)))

\* C11 as stated: a binary operator of two function fields f1 and f2 returns
\* a function field over the intersection of the mutually-broadcast domains
\* with g(x) = op(f1(x on f1's dimensions), f2(x on f2's dimensions)), every
\* operand ignoring the coordinates of the dimensions it lacks
C11_EveryOperandOnOwnDims ==
    FnFnCall => ComposedOf(LAMBDA f, dom, x : OwnArgs(f, dom, x))

\* C11: a binary operator of two function fields f1 and f2 returns a function
\* field over the intersection of the mutually-broadcast domains, domain-less
\* when both are, with g(x) = op(f1(x1), f2(x2)), where an operand with a
\* domain is given the coordinates of its own dimensions and a domain-less
\* operand all the coordinates
C11_OperandsWithDomainOnOwnDims ==
    FnFnCall => ComposedOf(LAMBDA f, dom, x :
                              IF has_empty_domain(f) THEN x ELSE OwnArgs(f, dom, x))

\* two generators that read their arguments, one over I and one over J
C11_DisjointAxesReached ==
    /\ FnFnCall
    /\ last.ok
    /\ DomainDims(fields[last.a].domain) = <<"I">>
    /\ DomainDims(fields[last.b].domain) = <<"J">>
    /\ fields[last.a].func = PolyFunc
    /\ fields[last.b].func = SumFunc
    /\ DomainDims(last.res.domain) = <<"I", "J">>
    /\ IsBounded(last.res.domain)

\* the last call was f op a of a function field f and an array-backed field a
FnNdCall ==
    /\ last.op = "fn_binary"
    /\ last.b > 0
    /\ fields[last.b].kind = "nd"

\* the value the function field f has at the point c: its generator on the
\* coordinates of f's own dimensions, counted from the start of each axis
GeneratorAt(f, c) ==
    CallFunc(f.func, [k \in 1..Len(f.domain) |->
                        IF IsUnbounded(f.domain[k].rng) THEN c[f.domain[k].dim]
                        ELSE c[f.domain[k].dim] - f.domain[k].rng.start])

\* C12: a binary operator of a function field f with a domain and an
\* array-backed field a returns an array-backed field over the intersection
\* of the two domains whose element at every point x of it is
\* op(f's generator on x's coordinates of f's own dimensions, a's element at
\* x), also when the two have different dimensions; a domain-less f gives an
\* array-backed field over a's domain
C12_FunctionWithArray ==
    FnNdCall =>
        LET f == fields[last.a]
            a == Shown(bufs, fields[last.b])
            r == last.res
        IN  /\ last.ok
            /\ r.kind = "nd"
            /\ has_empty_domain(f) => r.domain = a.domain
            /\ ~has_empty_domain(f) =>
                  /\ IsIntersection(r.domain, f.domain, a.domain)
                  /\ \A c \in Points :
                        InDomain(r.domain, c) =>
                            ValueAt(r, c) = ApplyOp(last.opn, GeneratorAt(f, c), ValueAt(a, c))

(***************************************************************************)
(* Broadcasting an array-backed field.                                     *)
(***************************************************************************)
\* dims holds the dimensions of dom in their order, and at least one more
AddsDims(dom, dims) ==
    /\ \A k \in 1..Len(dom) : find_index_of_dim(dom[k].dim, [i \in 1..Len(dims) |-> [dim |-> dims[i]]]) # 0
    /\ \A k \in 1..(Len(dom) - 1) :
          find_index_of_dim(dom[k].dim, [i \in 1..Len(dims) |-> [dim |-> dims[i]]])
              < find_index_of_dim(dom[k + 1].dim, [i \in 1..Len(dims) |-> [dim |-> dims[i]]])
    /\ \E i \in 1..Len(dims) : find_index_of_dim(dims[i], dom) = 0

\* the domain wide has the axes of the domain own as they are, and every
\* other axis of it is the unbounded placeholder
IsPlaceholderExtension(wide, own) ==
    /\ \A k \in 1..Len(own) : find_index_of_dim(own[k].dim, wide) # 0
    /\ \A k \in 1..Len(wide) :
          LET p == find_index_of_dim(wide[k].dim, own)
          IN  IF p = 0 THEN wide[k].rng = UnitRange_infinity ELSE wide[k].rng = own[p].rng

\* what restrict returned, a field or the scalar of a field without axes: its
\* domain, and its element at the point c
DomainOf(v) == IF v.kind = "scalar" THEN EMPTY_DOMAIN ELSE v.domain

ElementAt(v, c) == IF v.kind = "scalar" THEN v.v ELSE ValueAt(Shown(bufs, v), c)

\* slices naming only axes of dom, each inside the range of its axis
SlicesWithin(dom) ==
    {S \in Indices : (S = <<>> \/ IsRangeIndex(dom, S)) /\ IsContained(dom, S)}

\* C13: broadcasting an array-backed field f over a dimension tuple that
\* adds dimensions f lacks returns a field that has f's axes unchanged and
\* unbounded placeholder axes for the added dimensions, and for every slice S
\* naming only f's axes within f's domain restrict(broadcast(f, dims), S)
\* ends as restrict(f, S) does and holds the same values on f's axes
C13_BroadcastKeepsAxes ==
    (last.op = "broadcast" /\ AddsDims(fields[last.a].domain, last.inp)) =>
        /\ last.ok
        /\ last.res.kind = "nd"
        /\ DomainDims(last.res.domain) = last.inp
        /\ IsPlaceholderExtension(last.res.domain, fields[last.a].domain)
        /\ \A S \in SlicesWithin(fields[last.a].domain) :
              \E l \in {restrict(bufs, fields[last.a], S)},
                 r \in {restrict(bufs, NdField(last.res.domain, last.res.view), S)} :
                  /\ l.ok = r.ok
                  /\ IsBounded(fields[last.a].domain) => l.ok
                  /\ l.ok =>
                        /\ r.val.kind = "nd"
                        /\ IsPlaceholderExtension(r.val.domain, DomainOf(l.val))
                        /\ \A c \in Points :
                              InDomain(DomainOf(l.val), c) =>
                                  ElementAt(r.val, c) = ElementAt(l.val, c)

\* a field over J broadcast over (I, J), whose J axis a slice off the start
\* of the axis narrows
C13_AxisAddedReached ==
    /\ last.op = "broadcast"
    /\ last.ok
    /\ DomainDims(fields[last.a].domain) = <<"J">>
    /\ fields[last.a].domain[1].rng = UnitRange(MaxStart, MaxStart + MaxLen)
    /\ last.inp = <<"I", "J">>
    /\ last.res.arr.shape = <<1, MaxLen>>
    /\ \E S \in SlicesWithin(fields[last.a].domain) :
          /\ S # <<>>
          /\ S[1].rng.start > MaxStart
          /\ restrict(bufs, NdField(last.res.domain, last.res.view), S).ok

(***************************************************************************)
(* The buffer slices of a domain slice.                                    *)
(***************************************************************************)
\* the buffer selector of the axis k of the domain for the domain slice
SelectorOf(domain, domain_slice, k) ==
    LET p == find_index_of_dim(domain[k].dim, domain_slice)
    IN  IF p = 0 THEN SliceAll
        ELSE IF domain_slice[p].kind = "rng"
        THEN IF domain[k].rng = UnitRange_infinity THEN SliceAll
             ELSE Slice(domain_slice[p].rng.start - domain[k].rng.start,
                        domain_slice[p].rng.stop - domain[k].rng.start)
        ELSE IntIndex(domain_slice[p].idx - domain[k].rng.start)

\* some axis of the domain is named with neither a range nor an integer
NamesOtherKind(domain, domain_slice) ==
    \E k \in 1..Len(domain) :
        LET p == find_index_of_dim(domain[k].dim, domain_slice)
        IN  p # 0 /\ domain_slice[p].kind \notin {"rng", "idx"}

C15_CallRemapNotImplemented ==
    [][last'.op \in {"call", "remap"} =>
          /\ ~last'.ok
          /\ last'.err = "NotImplementedError"
          /\ UNCHANGED <<fields, bufs>>]_vars

(***************************************************************************)
(* Operands of the binary operators.                                       *)
(***************************************************************************)
\* C16: on either field variant, a binary operator whose other operand is
\* neither a field nor a scalar of a supported numeric type fails with a type
\* error and gives no result, and an operand that is such a scalar is not
\* rejected
C16_OperandTypes ==
    last.op \in {"fn_binary", "nd_binary"} =>
        /\ last.b < 0 => (~last.ok /\ last.err = "TypeError" /\ last.res = <<>>)
        /\ last.b = 0 => last.ok

(***************************************************************************)
(* The registry of built-in function implementations.                      *)
(***************************************************************************)
\* what the last call was about
RegisteredBefore == last'.inp.op \in DOMAIN registry

\* C17: the registry maps each built-in operation to at most one
\* implementation: a registered operation keeps its implementation for good,
\* registering an operation that is registered is rejected and leaves the map
\* as it was, a decorator-mode call does not change the map, registering an
\* unregistered operation adds just that entry, lookup of a registered
\* operation returns the implementation registered for it and lookup of an
\* unregistered one the NotImplemented marker
C17_RegistryOneImplementation ==
    [][/\ \A op \in DOMAIN registry : op \in DOMAIN registry' /\ registry'[op] = registry[op]
       /\ last'.op = "register" =>
             IF RegisteredBefore
             THEN ~last'.ok /\ registry' = registry
             ELSE IF last'.inp.op_func = "None"
             THEN last'.ok /\ last'.res.kind = "partial" /\ registry' = registry
             ELSE /\ last'.ok
                  /\ DOMAIN registry' = DOMAIN registry \cup {last'.inp.op}
                  /\ registry'[last'.inp.op] = last'.inp.op_func
       /\ last'.op = "lookup" =>
             /\ registry' = registry
             /\ last'.ok
             /\ last'.res.f = IF RegisteredBefore THEN registry[last'.inp.op]
                               ELSE "NotImplemented"]_vars

\* an operation registered through one class, and a second registration of
\* it, through another class and with another implementation, rejected
C17_SecondRegistrationRejected ==
    /\ last.op = "register"
    /\ ~last.ok
    /\ last.inp.op = "where"
    /\ last.inp.cls = "JaxArrayField"
    /\ last.inp.op_func = "impl_b"
    /\ "where" \in DOMAIN registry
    /\ registry["where"] = "impl_a"
    /\ calls = MaxCalls

(***************************************************************************)
(* The construction invariant of array-backed fields.                      *)
(***************************************************************************)
\* C18: every array-backed field there is after any sequence of from_array,
\* restrict, broadcast and unary and binary operator calls, kept or just
\* returned, has a buffer of as many axes as its domain, each as long as the
\* range of the domain axis, or of length 1 where that range is unbounded;
\* no call returns a field that is not so
C18_ConstructionInvariant ==
    /\ \A i \in NdFields : ShapeMatches(fields[i].arr.shape, fields[i].domain)
    /\ (/\ last.op \in {"from_array", "restrict", "broadcast", "unary", "binary"}
        /\ last.ok
        /\ last.res.kind = "nd") => ShapeMatches(last.res.arr.shape, last.res.domain)

\* a field broadcast to an unbounded second axis, of length 1 in the buffer,
\* and a restriction of it to a longer range of that axis refused
C18_LongerPlaceholderRefused ==
    /\ last.op = "restrict"
    /\ ~last.ok
    /\ last.err = "AssertionError"
    /\ DomainDims(fields[last.a].domain) = <<"I", "J">>
    /\ fields[last.a].domain[2].rng = UnitRange_infinity
    /\ fields[last.a].arr.shape = <<MaxLen, 1>>
    /\ last.index = <<NamedRng("J", UnitRange(1, MaxLen))>>

(***************************************************************************)
(* Restricting a function field, then materializing it.                    *)
(***************************************************************************)
\* the last call restricted a function field over a bounded domain with
\* axes by named sub-ranges of its axes, each inside the range of its axis
FnRestrictedToSubRange ==
    /\ last.op = "fn_restrict"
    /\ ~has_empty_domain(fields[last.a])
    /\ IsBounded(fields[last.a].domain)
    /\ \A k \in 1..Len(fields[last.a].domain) : RangeLen(fields[last.a].domain[k].rng) > 0
    /\ IsRangeIndex(fields[last.a].domain, last.index)
    /\ IsContained(fields[last.a].domain, last.index)

\* C19: restricting constant_field(v, D), D bounded and non-empty, by named
\* sub-ranges R that leave a non-empty domain gives a field that materializes
\* to an array of the shape of the narrowed domain's axis lengths, every
\* element of which is v
C19_RestrictedConstantMaterialized ==
    (FnRestrictedToSubRange /\ fields[last.a].constant) =>
        /\ last.ok
        /\ IsNarrowed(last.res.domain, fields[last.a].domain, last.index)
        /\ \E m \in {fn_ndarray(last.res)} :
              /\ m.ok
              /\ m.val.kind = "array"
              /\ m.val.shape = LengthsOf(last.res.domain)
              /\ DOMAIN m.val.data = IdxSet(LengthsOf(last.res.domain))
              /\ \A i \in DOMAIN m.val.data : m.val.data[i] = fields[last.a].func.v

\* the array-backed field of the array a function field materializes to
MaterializedField(f) ==
    Bind(fn_ndarray(f), LAMBDA m :
        IF ~m.ok THEN m
        ELSE IF m.val.kind # "array" THEN Err("scalar")
        ELSE FromNewData(bufs, [shape |-> m.val.shape, dtype |-> m.val.dtype,
                                data |-> m.val.data], f.domain))

\* C20: for a function field f over a bounded non-empty domain D and named
\* sub-ranges R within D, the array materialized from restrict(f, R) holds
\* the values of the array-backed field got by materializing f over D and
\* restricting that with R, coordinate by coordinate
C20_RestrictCommutesWithMaterialization ==
    FnRestrictedToSubRange =>
        /\ last.ok
        /\ \E l \in {fn_ndarray(last.res)}, st \in {MaterializedField(fields[last.a])} :
              /\ l.ok /\ l.val.kind = "array"
              /\ st.ok
              /\ \E r \in {restrict(st.val.heap, st.val.field, last.index)} :
                    /\ r.ok /\ r.val.kind = "nd"
                    /\ r.val.domain = last.res.domain
                    /\ ViewArr(st.val.heap, r.val.arr).shape = l.val.shape
                    /\ ViewArr(st.val.heap, r.val.arr).data = l.val.data

====
